---------------------------- MODULE Spec2Model ----------------------------
(***************************************************************************)
(* Model of the extractive frequency-based summarizer of src/resume.py:    *)
(* split_sentences, tokenize_words and summarize_text.                     *)
(*                                                                         *)
(* Representation.                                                         *)
(*  - A Python str is a sequence of one-character strings.                 *)
(*  - None is the empty tuple <<>>, a supplied value x is <<x>>.           *)
(*  - A float is an exact rational <<p, q>> with q > 0, kept in lowest     *)
(*    terms.  Within the inputs explored every product len * ratio and     *)
(*    every weight sum is far from a rounding boundary of IEEE doubles.    *)
(*  - A dict is kept with its insertion order: Counter as a function,      *)
(*    the defaultdict sentence_scores as a sequence of <<index, score>>    *)
(*    items in insertion order (what .items() iterates).                   *)
(*  - Sentence indices are 1-based here (Python: 0-based).                 *)
(***************************************************************************)
EXTENDS Integers, Sequences, FiniteSets, TLC

VARIABLES text, num_sentences, ratio,      \* arguments of summarize_text
          pc,                              \* "call" before, "done" after
          sentences, words, freq, sentence_scores, k, ranked,
          chosen_indices,                  \* locals of summarize_text
          summary,                         \* returned string
          outcome                          \* "pending", "return" or "raise"

vars == <<text, num_sentences, ratio, pc, sentences, words, freq,
          sentence_scores, k, ranked, chosen_indices, summary, outcome>>

None == <<>>
Some(x) == <<x>>

Min(a, b) == IF a <= b THEN a ELSE b
Max(a, b) == IF a >= b THEN a ELSE b
Range(s) == {s[i] : i \in 1..Len(s)}

---------------------------------------------------------------------------
(* Exact rationals standing for Python floats.                             *)

RECURSIVE GCD(_, _)
GCD(a, b) == IF b = 0 THEN a ELSE GCD(b, a % b)

Abs(x) == IF x < 0 THEN -x ELSE x

Rat(p, q) == LET g == GCD(Abs(p), q) IN <<p \div g, q \div g>>

RatAdd(a, b) == Rat(a[1] * b[2] + b[1] * a[2], a[2] * b[2])
RatLess(a, b) == a[1] * b[2] < b[1] * a[2]
RatEq(a, b) == a[1] * b[2] = b[1] * a[2]

\* int(n * r): float product truncated toward zero.
IntOfProduct(n, r) ==
    LET x == n * r[1]
    IN  IF x >= 0 THEN x \div r[2] ELSE -((-x) \div r[2])

---------------------------------------------------------------------------
(* Characters.                                                             *)

UpperCase == <<"A", "B", "C", "D", "E", "F", "G", "H", "I", "J", "K", "L",
               "M", "N", "O", "P", "Q", "R", "S", "T", "U", "V", "W", "X",
               "Y", "Z">>
LowerCase == <<"a", "b", "c", "d", "e", "f", "g", "h", "i", "j", "k", "l",
               "m", "n", "o", "p", "q", "r", "s", "t", "u", "v", "w", "x",
               "y", "z">>

\* str.lower() on one character, through a table of the 26 letters.
LowerOf == [c \in Range(UpperCase) |->
               LowerCase[CHOOSE i \in 1..26 : UpperCase[i] = c]]

lower(c) == IF c \in DOMAIN LowerOf THEN LowerOf[c] ELSE c

\* The character class [a-zA-Z'] of tokenize_words.
WordChars == Range(UpperCase) \cup Range(LowerCase) \cup {"'"}

\* The character class [.!?] of the lookbehind in split_sentences.
Terminals == {".", "!", "?"}

\* Characters removed by str.strip().
Whitespace == {" ", "\t", "\n", "\r"}

---------------------------------------------------------------------------
(* str.strip and str.join.                                                 *)

RECURSIVE lstrip(_)
lstrip(s) ==
    IF s # <<>> /\ Head(s) \in Whitespace THEN lstrip(Tail(s)) ELSE s

RECURSIVE rstrip(_)
rstrip(s) ==
    IF s # <<>> /\ s[Len(s)] \in Whitespace
    THEN rstrip(SubSeq(s, 1, Len(s) - 1))
    ELSE s

strip(s) == rstrip(lstrip(s))

\* " ".join(list)
RECURSIVE join(_)
join(list) ==
    IF list = <<>> THEN <<>>
    ELSE IF Len(list) = 1 THEN list[1]
    ELSE list[1] \o <<" ">> \o join(Tail(list))

---------------------------------------------------------------------------
(* split_sentences                                                         *)

\* First position at or after i that does not hold a space: the end of the
\* greedy match of " +".
RECURSIVE SkipSpaces(_, _)
SkipSpaces(t, i) ==
    IF i <= Len(t) /\ t[i] = " " THEN SkipSpaces(t, i + 1) ELSE i

\* re.split(r'(?<=[.!?]) +', t), scanning from position i with the current
\* piece cur and the pieces acc already cut.
RECURSIVE re_split(_, _, _, _)
re_split(t, i, cur, acc) ==
    IF i > Len(t) THEN Append(acc, cur)
    ELSE IF t[i] = " " /\ i > 1 /\ t[i - 1] \in Terminals
         THEN re_split(t, SkipSpaces(t, i), <<>>, Append(acc, cur))
         ELSE re_split(t, i + 1, Append(cur, t[i]), acc)

\* Body of split_sentences, the length threshold as written in the source.
KeepSentence(s) == Len(strip(s)) > 3

split_sentences(t) ==
    LET pieces == re_split(t, 1, <<>>, <<>>)
        kept   == SelectSeq(pieces, KeepSentence)
    IN  [i \in 1..Len(kept) |-> strip(kept[i])]

---------------------------------------------------------------------------
(* tokenize_words                                                          *)

\* re.findall(r"[a-zA-Z']+", t): the maximal runs of word characters.
RECURSIVE findall(_, _, _, _)
findall(t, i, cur, acc) ==
    IF i > Len(t) THEN (IF cur = <<>> THEN acc ELSE Append(acc, cur))
    ELSE IF t[i] \in WordChars
         THEN findall(t, i + 1, Append(cur, t[i]), acc)
         ELSE findall(t, i + 1, <<>>,
                      IF cur = <<>> THEN acc ELSE Append(acc, cur))

tokenize_words(t) ==
    findall([i \in 1..Len(t) |-> lower(t[i])], 1, <<>>, <<>>)

---------------------------------------------------------------------------
(* summarize_text, piece by piece                                          *)

stopwords == {
    <<"t", "h", "e">>, <<"a">>, <<"a", "n">>, <<"a", "n", "d">>,
    <<"i", "s">>, <<"t", "o">>, <<"i", "n">>, <<"t", "h", "a", "t">>,
    <<"f", "o", "r">>, <<"o", "f">>, <<"o", "n">>,
    <<"w", "i", "t", "h">>, <<"a", "s">>, <<"b", "y">>, <<"a", "t">>,
    <<"f", "r", "o", "m">>, <<"t", "h", "i", "s">>, <<"i", "t">>,
    <<"b", "e">>, <<"a", "r", "e">>, <<"o", "r">>,
    <<"w", "a", "s">>, <<"w", "e", "r", "e">>, <<"c", "a", "n">>,
    <<"h", "a", "s">>, <<"h", "a", "v", "e">>, <<"h", "a", "d">>,
    <<"b", "u", "t">>, <<"i", "f">>, <<"n", "o", "t">>,
    <<"w", "e">>, <<"y", "o", "u">>, <<"t", "h", "e", "y">>, <<"h", "e">>,
    <<"s", "h", "e">>, <<"h", "i", "s">>, <<"h", "e", "r">>,
    <<"t", "h", "e", "i", "r">>, <<"o", "u", "r">> }

\* words = [w for w in words if w not in stopwords]
IsContentWord(w) == w \notin stopwords
FilterStopwords(ws) == SelectSeq(ws, IsContentWord)

\* Variant: the fallback joins every sentence instead of sentences[:1].
FirstSentenceFallback_All(ss) == join(ss)

\* return " ".join(sentences[:1])
FirstSentenceFallback(ss) == join(SubSeq(ss, 1, Min(1, Len(ss))))

\* freq = Counter(words)
Counter(ws) ==
    [w \in Range(ws) |-> Cardinality({i \in 1..Len(ws) : ws[i] = w})]

\* Variant: weights normalised by the smallest count instead of max_freq.
NormalizeFreq_ByMin(c) ==
    LET min_freq == CHOOSE m \in {c[w] : w \in DOMAIN c} :
                        \A w \in DOMAIN c : m <= c[w]
    IN  [w \in DOMAIN c |-> Rat(c[w], min_freq)]

\* max_freq = max(freq.values())
\* for w in freq: freq[w] = freq[w] / max_freq
NormalizeFreq(c) ==
    LET max_freq == CHOOSE m \in {c[w] : w \in DOMAIN c} :
                        \A w \in DOMAIN c : c[w] <= m
    IN  [w \in DOMAIN c |-> Rat(c[w], max_freq)]

\* sentence_scores[i] += w on a defaultdict(float): the item of key i is
\* updated in place, or appended with 0.0 + w when the key is new.
DictAdd(scores, i, w) ==
    IF \E j \in 1..Len(scores) : scores[j][1] = i
    THEN [j \in 1..Len(scores) |->
             IF scores[j][1] = i
             THEN <<i, RatAdd(scores[j][2], w)>>
             ELSE scores[j]]
    ELSE Append(scores, <<i, RatAdd(<<0, 1>>, w)>>)

\* for word in tokens: if word in freq: sentence_scores[i] += freq[word]
RECURSIVE ScoreTokens(_, _, _, _)
ScoreTokens(scores, i, tokens, fq) ==
    IF tokens = <<>> THEN scores
    ELSE LET word == Head(tokens)
         IN  ScoreTokens(IF word \in DOMAIN fq
                         THEN DictAdd(scores, i, fq[word])
                         ELSE scores,
                         i, Tail(tokens), fq)

\* for i, sentence in enumerate(sentences): ...
RECURSIVE ScoreSentences(_, _, _, _)
ScoreSentences(scores, i, ss, fq) ==
    IF i > Len(ss) THEN scores
    ELSE ScoreSentences(ScoreTokens(scores, i, tokenize_words(ss[i]), fq),
                        i + 1, ss, fq)

\* The default of the final else branch, 0.25.
DefaultRatio == <<1, 4>>

\* Variant: the ratio branches round the product up instead of truncating.
ResolveK_RoundUp(n, num, r) ==
    IF num # None /\ num[1] # 0
    THEN Max(1, Min(n, num[1]))
    ELSE IF r # None /\ r[1][1] # 0
         THEN Max(1, IntOfProduct(n, r[1]) + 1)
         ELSE Max(1, IntOfProduct(n, DefaultRatio) + 1)

\* if num_sentences: ... elif ratio: ... else: ...
\* A Python int is truthy when it is not 0, a float when it is not 0.0,
\* None is falsy.
ResolveK(n, num, r) ==
    IF num # None /\ num[1] # 0
    THEN Max(1, Min(n, num[1]))
    ELSE IF r # None /\ r[1][1] # 0
         THEN Max(1, IntOfProduct(n, r[1]))
         ELSE Max(1, IntOfProduct(n, DefaultRatio))

\* Variant: an unstable step, the item goes before elements of equal key.
InsertByScoreDesc_Unstable(sorted, item) ==
    LET before == SelectSeq(sorted, LAMBDA e : RatLess(item[2], e[2]))
        after  == SelectSeq(sorted, LAMBDA e : ~RatLess(item[2], e[2]))
    IN  before \o <<item>> \o after

\* One step of the stable descending sort: item goes after every element
\* whose key is greater than or equal to its own.
InsertByScoreDesc(sorted, item) ==
    LET before == SelectSeq(sorted, LAMBDA e : ~RatLess(e[2], item[2]))
        after  == SelectSeq(sorted, LAMBDA e : RatLess(e[2], item[2]))
    IN  before \o <<item>> \o after

\* sorted(items, key=lambda x: x[1], reverse=True): stable, so items of equal
\* score keep the order they have in items.
RECURSIVE SortedByScoreReverse(_)
SortedByScoreReverse(items) ==
    IF items = <<>> THEN <<>>
    ELSE InsertByScoreDesc(
             SortedByScoreReverse(SubSeq(items, 1, Len(items) - 1)),
             items[Len(items)])

\* ranked = sorted(...)[:k]
Ranked(items, kk) ==
    LET all == SortedByScoreReverse(items)
    IN  SubSeq(all, 1, Min(kk, Len(all)))

\* sorted(list of ints), ascending.
RECURSIVE SortedAsc(_)
SortedAsc(xs) ==
    IF xs = <<>> THEN <<>>
    ELSE LET rest == SortedAsc(SubSeq(xs, 1, Len(xs) - 1))
             x    == xs[Len(xs)]
         IN  SelectSeq(rest, LAMBDA e : e <= x) \o <<x>> \o
             SelectSeq(rest, LAMBDA e : e > x)

\* Variant: the indices are left in ranking order.
ChosenIndices_Unsorted(rk) == [j \in 1..Len(rk) |-> rk[j][1]]

\* chosen_indices = sorted([i for i, _ in ranked])
ChosenIndices(rk) == SortedAsc([j \in 1..Len(rk) |-> rk[j][1]])

\* summary = " ".join([sentences[i] for i in chosen_indices])
Summary(ss, idx) == join([j \in 1..Len(idx) |-> ss[idx[j]]])

---------------------------------------------------------------------------
(* Inputs.                                                                 *)

\* The example document of the specification.
ExampleText ==
    <<"A", "l", "i", "c", "e", " ", "b", "u", "i", "l", "t", " ", "a", " ",
      "f", "a", "s", "t", " ", "c", "a", "c", "h", "e", ".", " ",
      "T", "h", "e", " ", "c", "a", "c", "h", "e", " ", "i", "s", " ",
      "f", "a", "s", "t", ".", " ",
      "B", "o", "b", " ", "w", "r", "o", "t", "e", " ",
      "s", "l", "o", "w", " ", "c", "o", "d", "e", ".">>

\* Building blocks of the generated documents: a fragment too short to be a
\* sentence, a sentence of stopwords only, a content sentence that repeats a
\* word, a sentence with an upper-case letter, a digit and a stopword, an
\* unterminated run of three characters, and a space.
Fragments ==
    { <<"b", ".">>,
      <<"a", " ", "a", ".">>,
      <<"c", " ", "c", " ", "b", "!">>,
      <<"B", " ", "1", " ", "a", "?">>,
      <<"b", " ", "c">>,
      <<" ">> }

MaxFrags == 3
MaxCount == 3

\* Documents made of exactly n fragments separated by one space.
RECURSIVE TextsOf(_)
TextsOf(n) ==
    IF n = 0 THEN {<<>>}
    ELSE IF n = 1 THEN Fragments
    ELSE {t \o <<" ">> \o f : t \in TextsOf(n - 1), f \in Fragments}

Texts == UNION {TextsOf(n) : n \in 0..MaxFrags} \cup {ExampleText}

Counts == {None} \cup {Some(n) : n \in -1..MaxCount}

RatioValues ==
    {<<-1, 2>>, <<0, 1>>, <<34, 100>>, <<1, 2>>, <<1, 1>>, <<3, 2>>}

Ratios == {None} \cup {Some(r) : r \in RatioValues}

---------------------------------------------------------------------------
(* The state machine: one call of summarize_text per behaviour.            *)

Init ==
    /\ text \in Texts
    /\ num_sentences \in Counts
    /\ ratio \in Ratios
    /\ pc = "call"
    /\ sentences = <<>>
    /\ words = <<>>
    /\ freq = <<>>
    /\ sentence_scores = <<>>
    /\ k = None
    /\ ranked = <<>>
    /\ chosen_indices = <<>>
    /\ summary = <<>>
    /\ outcome = "pending"

summarize_text ==
    /\ pc = "call"
    /\ pc' = "done"
    /\ outcome' = "return"
    /\ UNCHANGED <<text, num_sentences, ratio>>
    /\ LET ss == split_sentences(text)
           ws == FilterStopwords(tokenize_words(text))
       IN  IF ss = <<>>
           THEN \* if not sentences: return ""
                /\ sentences' = ss
                /\ summary' = <<>>
                /\ UNCHANGED <<words, freq, sentence_scores, k, ranked,
                               chosen_indices>>
           ELSE IF ws = <<>>
           THEN \* if not words: return " ".join(sentences[:1])
                /\ sentences' = ss
                /\ words' = ws
                /\ summary' = FirstSentenceFallback(ss)
                /\ UNCHANGED <<freq, sentence_scores, k, ranked,
                               chosen_indices>>
           ELSE LET fq == NormalizeFreq(Counter(ws))
                    sc == ScoreSentences(<<>>, 1, ss, fq)
                    kk == ResolveK(Len(ss), num_sentences, ratio)
                    rk == Ranked(sc, kk)
                    ci == ChosenIndices(rk)
                IN  /\ sentences' = ss
                    /\ words' = ws
                    /\ freq' = fq
                    /\ sentence_scores' = sc
                    /\ k' = Some(kk)
                    /\ ranked' = rk
                    /\ chosen_indices' = ci
                    /\ summary' = Summary(ss, ci)

Next == summarize_text

Spec == Init /\ [][Next]_vars

---------------------------------------------------------------------------
(* Vocabulary of the properties.                                           *)

Done == pc = "done"

\* The segmenter's output on the argument, recomputed from the input.
Segmented == split_sentences(text)
Total == Len(Segmented)

\* The text has at least one token that survives stopword filtering.
HasContentWord == \E w \in Range(tokenize_words(text)) : w \notin stopwords

\* Number of sentences in the returned string.  Every sentence but the last
\* of the document ends in a terminal, so segmenting the summary gives back
\* the sentences that were joined.
NumSummarySentences == Len(split_sentences(summary))

\* Strictly increasing sequences of indices in 1..n.
IndexSeqs(n) ==
    {s \in UNION {[1..m -> 1..n] : m \in 0..n} :
        \A a, b \in DOMAIN s : a < b => s[a] < s[b]}

\* Score of sentence i as held by sentence_scores; a sentence without an
\* item counts as 0.
ScoreOf(i) ==
    IF \E j \in 1..Len(sentence_scores) : sentence_scores[j][1] = i
    THEN sentence_scores[CHOOSE j \in 1..Len(sentence_scores) :
                             sentence_scores[j][1] = i][2]
    ELSE <<0, 1>>

Selected == Range(chosen_indices)

\* Occurrences of w in a token list, and the largest number of occurrences
\* of a non-stopword token.
Occ(toks, w) == Cardinality({i \in 1..Len(toks) : toks[i] = w})

MaxOcc(toks) ==
    LET counts == {Occ(toks, w) : w \in Range(toks) \ stopwords}
    IN  CHOOSE m \in counts : \A c \in counts : c <= m

\* Sum of the table weights over the token occurrences of a token list.
RECURSIVE WeightSum(_)
WeightSum(tokens) ==
    IF tokens = <<>> THEN <<0, 1>>
    ELSE RatAdd(IF Head(tokens) \in DOMAIN freq
                THEN freq[Head(tokens)] ELSE <<0, 1>>,
                WeightSum(Tail(tokens)))

Clamp(n, lo, hi) == Max(lo, Min(n, hi))

RatioInRange(r) == 0 < r[1] /\ r[1] <= r[2]

Word_fast == <<"f", "a", "s", "t">>
Word_cache == <<"c", "a", "c", "h", "e">>
FirstExampleSentence ==
    <<"A", "l", "i", "c", "e", " ", "b", "u", "i", "l", "t", " ", "a", " ",
      "f", "a", "s", "t", " ", "c", "a", "c", "h", "e", ".">>

ExampleCall ==
    /\ Done
    /\ text = ExampleText
    /\ num_sentences = None
    /\ ratio = Some(<<34, 100>>)

---------------------------------------------------------------------------
(* C1: the returned string is the single-space join of segmenter sentences *)
(* taken at strictly increasing indices, each used at most once, whatever  *)
(* order the ranking produced.                                             *)
C1_VerbatimOrderedSubsequence ==
    Done =>
        \E idx \in IndexSeqs(Total) :
            summary = join([j \in 1..Len(idx) |-> Segmented[idx[j]]])

\* Two sentences were selected and the ranking put the later one first.
C1_Witness ==
    /\ Done
    /\ Len(ranked) >= 2
    /\ ranked[1][1] > ranked[2][1]
    /\ Segmented[ranked[1][1]] # Segmented[ranked[2][1]]

(* C2: when the segmenter yields a sentence, the summary holds at least    *)
(* one and at most all of the sentences.                                   *)
C2_SummaryNeverEmpty ==
    (Done /\ Total >= 1) =>
        (1 <= NumSummarySentences /\ NumSummarySentences <= Total)

(* C3: with a count n >= 1 on a text with a content word and a sentence,   *)
(* the summary holds exactly min(n, total) sentences.                      *)
C3_CountIsExact ==
    (/\ Done
     /\ Total >= 1
     /\ HasContentWord
     /\ num_sentences # None
     /\ num_sentences[1] >= 1) =>
        NumSummarySentences = Min(num_sentences[1], Total)

(* C4: with a ratio r in (0,1] and no count (r = 0.25 when neither is      *)
(* given) on a text with a content word and a sentence, the summary holds  *)
(* exactly max(1, floor(total * r)) sentences.                             *)
C4_RatioIsExact ==
    (/\ Done
     /\ Total >= 1
     /\ HasContentWord
     /\ num_sentences = None
     /\ ratio # None => RatioInRange(ratio[1])) =>
        LET r == IF ratio = None THEN <<1, 4>> ELSE ratio[1]
        IN  NumSummarySentences = Max(1, (Total * r[1]) \div r[2])

(* C5: degenerate inputs give fixed values and no error, whatever count    *)
(* and ratio are: no sentence gives the empty string; a sentence but no    *)
(* token outside the stopwords gives exactly the first sentence.           *)
C5_DegenerateFallbacks ==
    Done =>
        /\ outcome = "return"
        /\ Total = 0 => summary = <<>>
        /\ (Total >= 1 /\ ~HasContentWord) => summary = Segmented[1]

\* The fallback to the first sentence was taken on a text of two or more
\* sentences with a count that asks for more than one.
C5_Witness ==
    /\ Done
    /\ Total >= 2
    /\ ~HasContentWord
    /\ num_sentences # None
    /\ num_sentences[1] >= 2
    /\ summary = Segmented[1]

(* C6 as stated: on the example document with ratio 0.34 there are three   *)
(* sentences, "fast" and "cache" have the highest weight, sentences 1 and  *)
(* 2 are tied at the highest score, the target is 1 and the output is the  *)
(* first sentence.                                                         *)
C6_ExampleTied ==
    ExampleCall =>
        /\ Len(sentences) = 3
        /\ \A w \in DOMAIN freq :
               RatEq(freq[w], <<1, 1>>) <=> w \in {Word_fast, Word_cache}
        /\ RatEq(ScoreOf(1), ScoreOf(2))
        /\ ~RatLess(ScoreOf(1), ScoreOf(3))
        /\ k = Some(1)
        /\ summary = FirstExampleSentence

(* C6 amended: on the example document with ratio 0.34 there are three     *)
(* sentences, "fast" and "cache" are the only words of weight 1, sentence  *)
(* 1 alone has the highest score (3, against 2 for sentences 2 and 3,      *)
(* which are tied), the target is 1 and the output is the first sentence.  *)
C6_ExampleUniqueTop ==
    ExampleCall =>
        /\ Len(sentences) = 3
        /\ \A w \in DOMAIN freq :
               RatEq(freq[w], <<1, 1>>) <=> w \in {Word_fast, Word_cache}
        /\ RatEq(ScoreOf(1), <<3, 1>>)
        /\ RatEq(ScoreOf(2), <<2, 1>>)
        /\ RatEq(ScoreOf(3), <<2, 1>>)
        /\ k = Some(1)
        /\ chosen_indices = <<1>>
        /\ summary = FirstExampleSentence

\* The example call has returned.
C6_Witness == ExampleCall /\ summary = FirstExampleSentence

(* C7: a ratio outside (0,1] given without a count is rejected with a      *)
(* configuration error; no summary is computed from it.  Stated for the    *)
(* calls that reach the resolution of the target.                          *)
C7_BadRatioRejected ==
    (/\ Done
     /\ num_sentences = None
     /\ ratio # None
     /\ ~RatioInRange(ratio[1])
     /\ k # None) =>
        outcome = "raise"

(* C8: whenever a count n is supplied, any integer, with or without a      *)
(* ratio, the resolved target is clamp(n, 1, total).                       *)
C8_CountWins ==
    (Done /\ num_sentences # None /\ k # None) =>
        k = Some(Clamp(num_sentences[1], 1, Total))

(* C9: the selected sentences are the top ones by score, ties going to the *)
(* lower index: no unselected sentence scores more than a selected one,    *)
(* and one that scores the same comes later in the document.               *)
C9_TopByScoreLowerIndexFirst ==
    (Done /\ k # None) =>
        \A i \in Selected : \A j \in (1..Total) \ Selected :
            /\ ~RatLess(ScoreOf(i), ScoreOf(j))
            /\ RatEq(ScoreOf(i), ScoreOf(j)) => j > i

\* A selected sentence and an unselected one have the same score.
C9_Witness ==
    /\ Done
    /\ k # None
    /\ \E i \in Selected : \E j \in (1..Total) \ Selected :
           RatEq(ScoreOf(i), ScoreOf(j)) /\ ScoreOf(i)[1] > 0

(* C10: the table holds exactly the non-stopword tokens of the text, each  *)
(* with weight count / maximum count, so in (0,1] and 1 for some word, and *)
(* each sentence's score is the sum of the weights over its token          *)
(* occurrences, tokens outside the table adding nothing.                   *)
C10_WeightsAndScores ==
    (Done /\ k # None) =>
        LET toks == tokenize_words(text)
            m    == MaxOcc(toks)
        IN  /\ DOMAIN freq = Range(toks) \ stopwords
            /\ DOMAIN freq \cap stopwords = {}
            /\ \A w \in DOMAIN freq :
                   /\ RatEq(freq[w], <<Occ(toks, w), m>>)
                   /\ freq[w][1] > 0
                   /\ freq[w][1] <= freq[w][2]
            /\ \E w \in DOMAIN freq : RatEq(freq[w], <<1, 1>>)
            /\ \A i \in 1..Len(sentences) :
                   RatEq(ScoreOf(i), WeightSum(tokenize_words(sentences[i])))

\* Two words of different weight, and a sentence that repeats a table word
\* and also holds a token outside the table.
C10_Witness ==
    /\ Done
    /\ k # None
    /\ \E v, w \in DOMAIN freq : RatLess(freq[v], freq[w])
    /\ \E i \in 1..Len(sentences) :
           LET toks == tokenize_words(sentences[i])
           IN  /\ \E a, b \in 1..Len(toks) :
                      a # b /\ toks[a] = toks[b] /\ toks[a] \in DOMAIN freq
               /\ \E a \in 1..Len(toks) : toks[a] \notin DOMAIN freq

===========================================================================
